---- MODULE Spec2Model ----
(***************************************************************************)
(* Model of src/src/main.rs: the transactions-per-second estimator.        *)
(*   count_user_transactions  the vote / user classifier of one block      *)
(*   calculate_tps            the rate over a time span                    *)
(*   calculate_for_range      the backward walk from the chain tip         *)
(*   main                     the version query, then one traversal        *)
(* The RPC client (get_version, get_slot, get_block_with_config) and the   *)
(* wall clock are the environment: a call fails or answers with a value    *)
(* drawn from a bounded set.  Integers keep the code's signedness and checked / saturating      *)
(* behaviour at a reduced width (I64_MAX, U64_MAX).                        *)
(***************************************************************************)
EXTENDS Integers, Sequences, FiniteSets, TLC

\* ------------------------------------------------------------ bounds
\* Largest value of the signed timestamp type (i64 in the code).
I64_MAX == 7
\* Largest value of the unsigned counter type (u64 in the code).
U64_MAX == 3
\* Slots are 0..MaxSlot.
MaxSlot == 2
\* Block heights are 0..MaxHeight.
MaxHeight == 2
\* Most instructions in a transaction, most transactions in a block.
MaxInstr == 2
MaxTx == 2
\* Most get_block calls the model follows in one traversal.
MaxFetch == 3

I64_MIN == -I64_MAX - 1
I64 == I64_MIN..I64_MAX
U64 == 0..U64_MAX
Slots == 0..MaxSlot

\* ------------------------------------------------------------ Option<T>
None == <<>>
Some(v) == <<v>>
Unwrap(o) == o[1]

\* ------------------------------------------------------------ integers
\* i64::saturating_sub: clamps at the ends of the i64 range.
saturating_sub(a, b) ==
    LET d == a - b
    IN  IF d > I64_MAX THEN I64_MAX ELSE IF d < I64_MIN THEN I64_MIN ELSE d

\* i64::checked_sub: None when the exact difference is outside i64.
checked_sub(a, b) ==
    LET d == a - b
    IN  IF d \in I64 THEN Some(d) ELSE None

\* u64::checked_add: None when the exact sum is outside u64.
checked_add(a, b) ==
    IF a + b <= U64_MAX THEN Some(a + b) ELSE None

\* usize::checked_sub: None when the difference would be negative.
usize_checked_sub(a, b) ==
    IF a >= b THEN Some(a - b) ELSE None

\* ------------------------------------------------------------ f64
\* The values of count as f64 / elapsed as f64: NaN, an infinity, or the
\* signed ratio in lowest terms (both conversions are exact at this width).
RECURSIVE Gcd(_, _)
Gcd(a, b) == IF b = 0 THEN a ELSE Gcd(b, a % b)

Abs(x) == IF x < 0 THEN -x ELSE x

F64Zero == [cls |-> "finite", neg |-> FALSE, num |-> 0, den |-> 1]

\* n >= 0 (a u64), d any i64.
F64Div(n, d) ==
    IF d = 0
    THEN IF n = 0
         THEN [cls |-> "nan", neg |-> FALSE, num |-> 0, den |-> 0]
         ELSE [cls |-> "inf", neg |-> FALSE, num |-> 1, den |-> 0]
    ELSE LET g == Gcd(n, Abs(d))
         IN  [cls |-> "finite", neg |-> d < 0, num |-> n \div g, den |-> Abs(d) \div g]

is_nan(x) == x.cls = "nan"
is_infinite(x) == x.cls = "inf"
\* x < 0.0 (false of -0.0)
F64Negative(x) == x.cls \in {"finite", "inf"} /\ x.neg /\ x.num > 0
\* x == 0.0 (true of -0.0)
F64IsZero(x) == x.cls = "finite" /\ x.num = 0

\* calculate_tps without lines 72-74.
calculate_tps_unguarded(oldest_timestamp, newest_timestamp, transaction_count) ==
    F64Div(transaction_count, saturating_sub(newest_timestamp, oldest_timestamp))

\* lines 64-77
calculate_tps(oldest_timestamp, newest_timestamp, transaction_count) ==
    LET total_seconds_diff == saturating_sub(newest_timestamp, oldest_timestamp)
        transactions_per_second == F64Div(transaction_count, total_seconds_diff)
    IN  IF is_nan(transactions_per_second) \/ is_infinite(transactions_per_second)
        THEN F64Zero
        ELSE transactions_per_second

\* ------------------------------------------------------------ classifier
VoteProgramId == "Vote111111111111111111111111111111111111111"
SystemProgramId == "11111111111111111111111111111111"

\* A transaction of a block: whether its payload decodes, its static account
\* keys and, per instruction, the program_id_index (0-based, as in the code).
KeyLists == {<<VoteProgramId>>, <<SystemProgramId>>,
             <<SystemProgramId, VoteProgramId>>, <<VoteProgramId, SystemProgramId>>}
InstrLists == UNION {[1..n -> 0..1] : n \in 0..MaxInstr}
BadTx == [decodable |-> FALSE, account_keys |-> <<>>, instructions |-> <<>>]
Transactions ==
    {BadTx} \cup
    [decodable : {TRUE}, account_keys : KeyLists, instructions : InstrLists]
Blocks == UNION {[1..n -> Transactions] : n \in 0..MaxTx}

\* The inner loop (lines 30-41): the number of instructions whose program id
\* is the vote program, or None when an index is outside account_keys.
RECURSIVE NumVoteInstructions(_, _, _)
NumVoteInstructions(tx, i, acc) ==
    IF i > Len(tx.instructions) THEN Some(acc)
    ELSE LET program_id_index == tx.instructions[i]
         IN  IF program_id_index >= Len(tx.account_keys) THEN None
             ELSE LET program_id == tx.account_keys[program_id_index + 1]
                  IN  NumVoteInstructions(tx, i + 1,
                          IF program_id = VoteProgramId THEN acc + 1 ELSE acc)

\* Line 43 with "some instruction is a vote" in the place of "all are".
IsVoteTransactionAny(num_vote_instructions, num_instructions) ==
    num_vote_instructions > 0

\* line 43: num_vote_instructions == transaction.message.instructions().len()
IsVoteTransaction(num_vote_instructions, num_instructions) ==
    num_vote_instructions = num_instructions

Panicked(why) == [panic |-> why, user |-> 0, vote |-> 0]

\* The outer loop (lines 26-49) from transaction i on, then lines 51-60.
RECURSIVE CountFrom(_, _, _)
CountFrom(transactions, i, user_transactions_count) ==
    IF i > Len(transactions)
    THEN LET vote_transactions_count ==
                 usize_checked_sub(Len(transactions), user_transactions_count)
         IN  IF vote_transactions_count = None THEN Panicked("Underflow")
             ELSE [panic |-> "", user |-> user_transactions_count,
                   vote |-> Unwrap(vote_transactions_count)]
    ELSE LET tx == transactions[i]
         IN  IF ~tx.decodable THEN Panicked("decode")
             ELSE LET num_vote_instructions == NumVoteInstructions(tx, 1, 0)
                  IN  IF num_vote_instructions = None THEN Panicked("index")
                      ELSE IF IsVoteTransaction(Unwrap(num_vote_instructions),
                                                Len(tx.instructions))
                           THEN CountFrom(transactions, i + 1, user_transactions_count)
                           ELSE CountFrom(transactions, i + 1, user_transactions_count + 1)

\* A classifier that drops the transactions it cannot decode.
count_user_transactions_skipping(transactions) ==
    CountFrom(SelectSeq(transactions, LAMBDA tx : tx.decodable), 1, 0)

\* lines 23-61
count_user_transactions(transactions) == CountFrom(transactions, 1, 0)

\* ------------------------------------------------------------ block source
\* chrono's NaiveDateTime::from_timestamp panics outside its range of seconds,
\* which is narrower than i64.
NaiveMax == 6
NaiveInRange(secs) == -NaiveMax - 1 <= secs /\ secs <= NaiveMax

VoteTx == [decodable |-> TRUE, account_keys |-> <<VoteProgramId>>,
           instructions |-> <<0>>]
UserTx == [decodable |-> TRUE, account_keys |-> <<SystemProgramId, VoteProgramId>>,
           instructions |-> <<0>>]
MixedTx == [decodable |-> TRUE, account_keys |-> <<SystemProgramId, VoteProgramId>>,
            instructions |-> <<1, 0>>]

\* What get_block can answer in a traversal: the fields of
\* EncodedConfirmedBlock the code reads, and the slot the block was asked by.
TimeSamples == {I64_MIN, 4, 5, I64_MAX}
TxSamples == {<<VoteTx, UserTx>>, <<UserTx, MixedTx>>, <<UserTx, BadTx>>}
ThresholdSamples == {I64_MIN, 1}
OptTimes == {None} \cup {Some(t) : t \in TimeSamples}
OptHeights == {None} \cup {Some(h) : h \in 0..MaxHeight}

\* parent_slot is an older slot or the block's own (as at slot 0, or at any
\* slot of a malformed chain).
BlocksAt(s) ==
    [slot : {s}, parent_slot : 0..s, block_time : OptTimes,
     block_height : OptHeights, transactions : TxSamples]

NoBlock == [slot |-> -1, parent_slot |-> -1, block_time |-> None,
            block_height |-> None, transactions |-> <<>>]

\* ------------------------------------------------------------ state
VARIABLES
    pc,                        \* position in main / calculate_for_range
    panic,                     \* "" or what the run panicked on
    threshold_seconds,         \* argument of calculate_for_range
    newest_block_number,
    current_block,
    prev_block,
    newest_timestamp,
    timestamp_threshold,
    total_transactions_count,
    oldest_timestamp,          \* None inside the loop
    transactions_per_second,   \* None until calculate_tps has returned
    calls,                     \* every RPC call and classification, in order
    cls_block,                 \* classifier on its own: the block
    cls_result,                \*   and what count_user_transactions did with it
    tps_args,                  \* calculate_tps on its own: the arguments
    tps_result                 \*   and the rate returned

walk_vars == <<pc, panic, threshold_seconds, newest_block_number, current_block,
               prev_block, newest_timestamp, timestamp_threshold,
               total_transactions_count, oldest_timestamp,
               transactions_per_second, calls>>
cls_vars == <<cls_block, cls_result>>
tps_vars == <<tps_args, tps_result>>
vars == <<walk_vars, cls_vars, tps_vars>>

NotRun == [panic |-> "not run", user |-> 0, vote |-> 0]
NoArgs == [oldest |-> 0, newest |-> 0, count |-> 0]

\* An entry of calls: the operation, the slot asked for or classified, whether
\* it succeeded, the block it returned or read and, for the fetch of a parent,
\* the slot of the block that named it (-1 otherwise).
Call(op, slot, ok, blk, child) ==
    [op |-> op, slot |-> slot, ok |-> ok, block |-> blk, child |-> child]

\* main before its first RPC call (lines 133-139); threshold_seconds is the
\* argument line 143 will pass.
WalkInit ==
    /\ pc = "get_version"
    /\ panic = ""
    /\ threshold_seconds \in ThresholdSamples
    /\ newest_block_number = -1
    /\ current_block = NoBlock
    /\ prev_block = NoBlock
    /\ newest_timestamp = 0
    /\ timestamp_threshold = 0
    /\ total_transactions_count = 0
    /\ oldest_timestamp = None
    /\ transactions_per_second = None
    /\ calls = <<>>

Abort(why) ==
    /\ pc' = "aborted"
    /\ panic' = why

\* ------------------------------------------------------------ main
\* line 141: client.get_version().unwrap()
GetVersion ==
    /\ pc = "get_version"
    /\ \/ /\ Abort("get_version")
          /\ calls' = Append(calls, Call("get_version", -1, FALSE, NoBlock, -1))
       \/ /\ calls' = Append(calls, Call("get_version", -1, TRUE, NoBlock, -1))
          /\ pc' = "get_slot"
          /\ UNCHANGED panic
    /\ UNCHANGED <<threshold_seconds, newest_block_number, current_block, prev_block,
                   newest_timestamp, timestamp_threshold, total_transactions_count,
                   oldest_timestamp, transactions_per_second>>

\* ------------------------------------------------------------ calculate_for_range
\* line 83: client.get_slot().unwrap()
GetSlot ==
    /\ pc = "get_slot"
    /\ \/ /\ Abort("get_slot")
          /\ calls' = Append(calls, Call("get_slot", -1, FALSE, NoBlock, -1))
          /\ UNCHANGED newest_block_number
       \/ \E s \in Slots :
             /\ newest_block_number' = s
             /\ calls' = Append(calls, Call("get_slot", s, TRUE, NoBlock, -1))
             /\ pc' = "get_tip"
             /\ UNCHANGED panic
    /\ UNCHANGED <<threshold_seconds, current_block, prev_block, newest_timestamp,
                   timestamp_threshold, total_transactions_count, oldest_timestamp,
                   transactions_per_second>>

\* lines 84-89: the tip block, newest_timestamp and timestamp_threshold
GetTipBlock ==
    /\ pc = "get_tip"
    /\ \/ /\ Abort("get_block")
          /\ calls' = Append(calls, Call("get_block", newest_block_number, FALSE, NoBlock, -1))
          /\ UNCHANGED <<current_block, newest_timestamp, timestamp_threshold>>
       \/ \E b \in BlocksAt(newest_block_number) :
             /\ current_block' = b
             /\ calls' = Append(calls, Call("get_block", newest_block_number, TRUE, b, -1))
             /\ IF b.block_time = None
                THEN /\ Abort("block_time")
                     /\ UNCHANGED <<newest_timestamp, timestamp_threshold>>
                ELSE /\ newest_timestamp' = Unwrap(b.block_time)
                     /\ LET t == checked_sub(Unwrap(b.block_time), threshold_seconds)
                        IN  IF t = None
                            THEN /\ Abort("checked_sub")
                                 /\ UNCHANGED timestamp_threshold
                            ELSE /\ timestamp_threshold' = Unwrap(t)
                                 /\ pc' = "fetch_prev"
                                 /\ UNCHANGED panic
    /\ UNCHANGED <<threshold_seconds, newest_block_number, prev_block,
                   total_transactions_count, oldest_timestamp,
                   transactions_per_second>>

\* The chain does not change under the walk: a slot asked for again answers
\* with the block it answered with before.
KnownAt(s) ==
    {calls[i].block : i \in {j \in 1..Len(calls) :
        calls[j].op = "get_block" /\ calls[j].ok /\ calls[j].slot = s}}
BlockSource(s) == IF KnownAt(s) # {} THEN KnownAt(s) ELSE BlocksAt(s)

NumFetches == Cardinality({i \in 1..Len(calls) : calls[i].op = "get_block"})

\* lines 93-94: get_block(client, current_block.parent_slot)
FetchPrev ==
    /\ pc = "fetch_prev"
    /\ NumFetches < MaxFetch
    /\ LET prev_block_number == current_block.parent_slot
       IN  \/ /\ Abort("get_block")
              /\ calls' = Append(calls, Call("get_block", prev_block_number, FALSE, NoBlock,
                                            current_block.slot))
              /\ UNCHANGED prev_block
           \/ \E b \in BlockSource(prev_block_number) :
                 /\ prev_block' = b
                 /\ calls' = Append(calls, Call("get_block", prev_block_number, TRUE, b,
                                               current_block.slot))
                 /\ pc' = "count"
                 /\ UNCHANGED panic
    /\ UNCHANGED <<threshold_seconds, newest_block_number, current_block,
                   newest_timestamp, timestamp_threshold, total_transactions_count,
                   oldest_timestamp, transactions_per_second>>

\* Lines 102-104 with u64::wrapping_add in the place of checked_add.
AddToTotalWrapping(total, transactions_count) ==
    Some((total + transactions_count) % (U64_MAX + 1))

\* lines 102-104: total_transactions_count.checked_add(transactions_count)
AddToTotal(total, transactions_count) == checked_add(total, transactions_count)

\* lines 96-104: classify current_block, format its time, add to the total
CountCurrent ==
    /\ pc = "count"
    /\ LET r == count_user_transactions(current_block.transactions)
           sum == AddToTotal(total_transactions_count, r.user)
       IN  IF r.panic # ""
           THEN /\ Abort(r.panic)
                /\ calls' = Append(calls, Call("classify", current_block.slot, FALSE,
                                            current_block, -1))
                /\ UNCHANGED total_transactions_count
           ELSE /\ calls' = Append(calls, Call("classify", current_block.slot, TRUE,
                                            current_block, -1))
                /\ IF ~NaiveInRange(Unwrap(current_block.block_time))
                   THEN /\ Abort("from_timestamp")
                        /\ UNCHANGED total_transactions_count
                   ELSE IF sum = None
                        THEN /\ Abort("Overflow")
                             /\ UNCHANGED total_transactions_count
                        ELSE /\ total_transactions_count' = Unwrap(sum)
                             /\ pc' = "check"
                             /\ UNCHANGED panic
    /\ UNCHANGED <<threshold_seconds, newest_block_number, current_block, prev_block,
                   newest_timestamp, timestamp_threshold, oldest_timestamp,
                   transactions_per_second>>

\* Line 108 with < in the place of <=.
ThresholdCrossedStrict(prev_block_timestamp, threshold) ==
    prev_block_timestamp < threshold

\* line 108
ThresholdCrossed(prev_block_timestamp, threshold) ==
    prev_block_timestamp <= threshold

\* Line 112 with the test lost: the walk never stops at genesis.
IsGenesisNever(block_height) == FALSE

\* line 112
IsGenesis(block_height) == block_height = 0

\* CheckStop with the genesis test (line 112) ahead of the threshold test.
CheckStopGenesisFirst ==
    /\ pc = "check"
    /\ IF prev_block.block_time = None
       THEN /\ Abort("block_time")
            /\ UNCHANGED <<current_block, prev_block, oldest_timestamp>>
       ELSE LET prev_block_timestamp == Unwrap(prev_block.block_time)
            IN  IF prev_block.block_height = None
                THEN /\ Abort("block_height")
                     /\ UNCHANGED <<current_block, prev_block, oldest_timestamp>>
                ELSE IF \/ IsGenesis(Unwrap(prev_block.block_height))
                        \/ ThresholdCrossed(prev_block_timestamp, timestamp_threshold)
                     THEN /\ oldest_timestamp' = Some(prev_block_timestamp)
                          /\ pc' = "tps"
                          /\ UNCHANGED <<panic, current_block, prev_block>>
                     ELSE /\ current_block' = prev_block
                          /\ prev_block' = NoBlock
                          /\ pc' = "fetch_prev"
                          /\ UNCHANGED <<panic, oldest_timestamp>>
    /\ UNCHANGED <<threshold_seconds, newest_block_number, newest_timestamp,
                   timestamp_threshold, total_transactions_count,
                   transactions_per_second, calls>>

\* CheckStop without line 116: current_block is never replaced.
CheckStopNoAdvance ==
    /\ pc = "check"
    /\ IF prev_block.block_time = None
       THEN /\ Abort("block_time")
            /\ UNCHANGED <<current_block, prev_block, oldest_timestamp>>
       ELSE LET prev_block_timestamp == Unwrap(prev_block.block_time)
            IN  IF ThresholdCrossed(prev_block_timestamp, timestamp_threshold)
                THEN /\ oldest_timestamp' = Some(prev_block_timestamp)
                     /\ pc' = "tps"
                     /\ UNCHANGED <<panic, current_block, prev_block>>
                ELSE IF prev_block.block_height = None
                     THEN /\ Abort("block_height")
                          /\ UNCHANGED <<current_block, prev_block, oldest_timestamp>>
                     ELSE IF IsGenesis(Unwrap(prev_block.block_height))
                          THEN /\ oldest_timestamp' = Some(prev_block_timestamp)
                               /\ pc' = "tps"
                               /\ UNCHANGED <<panic, current_block, prev_block>>
                          ELSE /\ prev_block' = NoBlock
                               /\ pc' = "fetch_prev"
                               /\ UNCHANGED <<panic, current_block, oldest_timestamp>>
    /\ UNCHANGED <<threshold_seconds, newest_block_number, newest_timestamp,
                   timestamp_threshold, total_transactions_count,
                   transactions_per_second, calls>>

\* lines 106-116: the two stop tests, else step to the parent
CheckStop ==
    /\ pc = "check"
    /\ IF prev_block.block_time = None
       THEN /\ Abort("block_time")
            /\ UNCHANGED <<current_block, prev_block, oldest_timestamp>>
       ELSE LET prev_block_timestamp == Unwrap(prev_block.block_time)
            IN  IF ThresholdCrossed(prev_block_timestamp, timestamp_threshold)
                THEN /\ oldest_timestamp' = Some(prev_block_timestamp)
                     /\ pc' = "tps"
                     /\ UNCHANGED <<panic, current_block, prev_block>>
                ELSE IF prev_block.block_height = None
                     THEN /\ Abort("block_height")
                          /\ UNCHANGED <<current_block, prev_block, oldest_timestamp>>
                     ELSE IF IsGenesis(Unwrap(prev_block.block_height))
                          THEN /\ oldest_timestamp' = Some(prev_block_timestamp)
                               /\ pc' = "tps"
                               /\ UNCHANGED <<panic, current_block, prev_block>>
                          ELSE /\ current_block' = prev_block
                               /\ prev_block' = NoBlock
                               /\ pc' = "fetch_prev"
                               /\ UNCHANGED <<panic, oldest_timestamp>>
    /\ UNCHANGED <<threshold_seconds, newest_block_number, newest_timestamp,
                   timestamp_threshold, total_transactions_count,
                   transactions_per_second, calls>>

\* lines 119-123: the rate of the walked window
CalculateTps ==
    /\ pc = "tps"
    /\ transactions_per_second' =
           Some(calculate_tps(Unwrap(oldest_timestamp), newest_timestamp,
                              total_transactions_count))
    /\ pc' = "report"
    /\ UNCHANGED <<panic, threshold_seconds, newest_block_number, current_block,
                   prev_block, newest_timestamp, timestamp_threshold,
                   total_transactions_count, oldest_timestamp, calls>>

\* calculation_end.signed_duration_since(calculation_start), in seconds: the
\* wall clock read at line 125 against the one read at line 81; negative when
\* the clock was set back in between.
DurationSamples == {-1, 0, 1}

\* chrono's Duration::to_std: an error (here None) for a negative duration.
to_std(duration) == IF duration < 0 THEN None ELSE Some(duration)

\* lines 125-130: the elapsed time, then the two log lines; pc = "done" is the
\* rate reported.
Report ==
    /\ pc = "report"
    /\ \E d \in DurationSamples :
          IF to_std(d) = None
          THEN Abort("to_std")
          ELSE pc' = "done" /\ UNCHANGED panic
    /\ UNCHANGED <<threshold_seconds, newest_block_number, current_block,
                   prev_block, newest_timestamp, timestamp_threshold,
                   total_transactions_count, oldest_timestamp,
                   transactions_per_second, calls>>

WalkNext ==
    \/ GetVersion
    \/ GetSlot
    \/ GetTipBlock
    \/ FetchPrev
    \/ CountCurrent
    \/ CheckStop
    \/ CalculateTps
    \/ Report

\* The walk at rest, for the specifications of the two pure functions.
WalkIdle ==
    /\ pc = "idle"
    /\ panic = ""
    /\ threshold_seconds = 0
    /\ newest_block_number = -1
    /\ current_block = NoBlock
    /\ prev_block = NoBlock
    /\ newest_timestamp = 0
    /\ timestamp_threshold = 0
    /\ total_transactions_count = 0
    /\ oldest_timestamp = None
    /\ transactions_per_second = None
    /\ calls = <<>>

Init ==
    /\ WalkInit
    /\ cls_block = <<>> /\ cls_result = NotRun
    /\ tps_args = NoArgs /\ tps_result = None

Next == WalkNext /\ UNCHANGED <<cls_vars, tps_vars>>

\* One traversal: main's call of calculate_for_range.
Spec == Init /\ [][Next]_vars

\* The program is sequential and runs to its end: a step that can be taken is.
FairSpec == Spec /\ WF_vars(Next)

\* count_user_transactions applied to every block of the bounded universe.
ClassifyInit ==
    /\ WalkIdle
    /\ cls_block \in Blocks /\ cls_result = NotRun
    /\ tps_args = NoArgs /\ tps_result = None

ClassifyBlock ==
    /\ cls_result = NotRun
    /\ cls_result' = count_user_transactions(cls_block)
    /\ UNCHANGED <<cls_block, walk_vars, tps_vars>>

SpecClassify == ClassifyInit /\ [][ClassifyBlock]_vars

\* calculate_tps applied to every argument triple of the reduced widths.
TpsInit ==
    /\ WalkIdle
    /\ cls_block = <<>> /\ cls_result = NotRun
    /\ tps_args \in [oldest : I64, newest : I64, count : U64]
    /\ tps_result = None

ApplyTps ==
    /\ tps_result = None
    /\ tps_result' = Some(calculate_tps(tps_args.oldest, tps_args.newest, tps_args.count))
    /\ UNCHANGED <<tps_args, walk_vars, cls_vars>>

SpecTps == TpsInit /\ [][ApplyTps]_vars

\* ------------------------------------------------------------ what a run did
FetchCalls == SelectSeq(calls, LAMBDA c : c.op = "get_block")
Fetched == SelectSeq(calls, LAMBDA c : c.op = "get_block" /\ c.ok)
Classified == SelectSeq(calls, LAMBDA c : c.op = "classify" /\ c.ok)
\* The loop has ended: its break value is set (lines 92, 109, 113).
Completed == oldest_timestamp # None
LastFetched == Fetched[Len(Fetched)].block
TimeOf(c) == Unwrap(c.block.block_time)
\* newest_timestamp - threshold_seconds, over the integers
ExactThreshold == TimeOf(Fetched[1]) - threshold_seconds

\* The user transactions of a block, said without counting instructions.
TargetsVote(tx, j) == tx.account_keys[tx.instructions[j] + 1] = VoteProgramId
WellFormed(tx) ==
    /\ tx.decodable
    /\ \A j \in 1..Len(tx.instructions) : tx.instructions[j] < Len(tx.account_keys)
HasNonVoteInstruction(tx) == \E j \in 1..Len(tx.instructions) : ~TargetsVote(tx, j)
UserTransactions(b) == {i \in 1..Len(b) : HasNonVoteInstruction(b[i])}
VoteOnlyTransactions(b) ==
    {i \in 1..Len(b) : \A j \in 1..Len(b[i].instructions) : TargetsVote(b[i], j)}
AllDecodable(b) == \A i \in 1..Len(b) : b[i].decodable

\* The exact sum of the user transactions of the first n entries of cs.
RECURSIVE SumUsers(_, _)
SumUsers(cs, n) ==
    IF n = 0 THEN 0
    ELSE SumUsers(cs, n - 1) + Cardinality(UserTransactions(cs[n].block.transactions))

\* Height strictly decreases from a block to its parent on every link the
\* walk has followed: no block asked for itself as its parent, and each block
\* fetched as a parent has a height below that of the block that named it.
HeightsDecrease ==
    \A i \in 1..Len(FetchCalls) :
        FetchCalls[i].child # -1 =>
            /\ FetchCalls[i].slot # FetchCalls[i].child
            /\ FetchCalls[i].ok =>
                  \A c \in KnownAt(FetchCalls[i].child) :
                      /\ FetchCalls[i].block.block_height # None
                      /\ c.block_height # None
                      /\ Unwrap(FetchCalls[i].block.block_height) < Unwrap(c.block_height)

\* ------------------------------------------------------------ claims
\* C1: when the walk stops on the threshold test, the last block fetched is the
\* first parent at or before the threshold, oldest_timestamp is its time, and
\* the total is the sum over exactly the blocks fetched before it.
C1_BoundaryExclusion ==
    (Completed /\ TimeOf(Fetched[Len(Fetched)]) <= ExactThreshold) =>
        LET n == Len(Fetched)
        IN  /\ n >= 2
            /\ \A i \in 2..(n - 1) : TimeOf(Fetched[i]) > ExactThreshold
            /\ oldest_timestamp = LastFetched.block_time
            /\ Len(Classified) = n - 1
            /\ \A i \in 1..(n - 1) : Classified[i].block = Fetched[i].block
            /\ total_transactions_count = SumUsers(Fetched, n - 1)

\* C1's case: two blocks counted, the third sits exactly on the threshold and
\* has user transactions of its own.
C1_Witness ==
    /\ pc = "done"
    /\ Len(Fetched) = 3
    /\ TimeOf(Fetched[3]) = ExactThreshold
    /\ UserTransactions(LastFetched.transactions) # {}
    /\ total_transactions_count = SumUsers(Fetched, 2)

\* C2: count_user_transactions returns the number of transactions with an
\* instruction outside the vote program; the others are the vote-only ones
\* (those with no instruction among them); the two add up to the block and
\* the Underflow check never fires.
C2_Classifier ==
    cls_result # NotRun =>
        /\ cls_result.panic # "Underflow"
        /\ cls_result.panic = "" <=> \A i \in 1..Len(cls_block) : WellFormed(cls_block[i])
        /\ cls_result.panic = "" =>
              /\ cls_result.user = Cardinality(UserTransactions(cls_block))
              /\ cls_result.vote = Cardinality(VoteOnlyTransactions(cls_block))
              /\ cls_result.user + cls_result.vote = Len(cls_block)

\* C2's case: a block with a transaction of two non-vote instructions and a
\* transaction of no instruction at all.
C2_Witness ==
    /\ cls_result # NotRun
    /\ cls_result.panic = ""
    /\ cls_result.user = 1
    /\ \E i \in 1..Len(cls_block) :
          /\ Len(cls_block[i].instructions) = 2
          /\ \A j \in 1..2 : ~TargetsVote(cls_block[i], j)
    /\ \E i \in 1..Len(cls_block) : cls_block[i].decodable /\ cls_block[i].instructions = <<>>

\* C3: a parent of height 0 met before any parent at or before the threshold
\* is the last block fetched: the stop tests end the loop there without a
\* panic, and oldest_timestamp is that block's time.
C3_GenesisTermination ==
    \A j \in 2..Len(Fetched) :
        ( /\ Fetched[j].block.block_height = Some(0)
          /\ \A i \in 2..j : /\ Fetched[i].block.block_time # None
                             /\ TimeOf(Fetched[i]) > ExactThreshold )
        => /\ j = Len(Fetched)
           /\ \/ pc \in {"count", "check"}
              \/ Completed
              \/ pc = "aborted" /\ panic \in {"decode", "index", "from_timestamp", "Overflow"}
           /\ Completed => oldest_timestamp = Fetched[j].block.block_time

\* C3's case: the tip is itself at height 0 and names itself as parent; the
\* walk ends on the genesis test.
C3_Witness ==
    /\ pc = "done"
    /\ Len(Fetched) = 2
    /\ Fetched[1].block.block_height = Some(0)
    /\ Fetched[2].block = Fetched[1].block
    /\ TimeOf(Fetched[2]) > ExactThreshold
    /\ oldest_timestamp = Fetched[1].block.block_time

\* C4: on a chain whose heights strictly decrease the traversal ends: it
\* leaves the loop, or panics, in finitely many steps.
C4_Termination == <>(Completed \/ pc = "aborted" \/ ~HeightsDecrease)

\* C4's case: a walk down a strictly decreasing chain to height 0, never
\* reaching the threshold.
C4_Witness ==
    /\ pc = "done"
    /\ HeightsDecrease
    /\ Len(Fetched) = MaxHeight + 1
    /\ TimeOf(Fetched[Len(Fetched)]) > ExactThreshold

\* C5: the rate calculate_tps returns is never negative, and is zero when
\* newest_ts < oldest_ts.
C5_NeverNegative ==
    tps_result # None =>
        /\ ~F64Negative(Unwrap(tps_result))
        /\ tps_args.newest < tps_args.oldest => F64IsZero(Unwrap(tps_result))

\* C6: calculate_tps never returns NaN or an infinity; it returns 0.0 when the
\* two timestamps are equal, and when the count is 0 and newest > oldest.
C6_DegenerateZero ==
    tps_result # None =>
        /\ Unwrap(tps_result).cls = "finite"
        /\ tps_args.oldest = tps_args.newest => Unwrap(tps_result) = F64Zero
        /\ (tps_args.count = 0 /\ tps_args.newest > tps_args.oldest)
              => Unwrap(tps_result) = F64Zero

\* C6's case: a positive count over a zero span.
C6_Witness ==
    /\ tps_result = Some(F64Zero)
    /\ tps_args.oldest = tps_args.newest
    /\ tps_args.count > 0

\* C7 as stated: once a rate is reported, no block the traversal fetched holds
\* a transaction that cannot be decoded.
C7_AnyFetchedBlock ==
    pc = "done" =>
        \A i \in 1..Len(Fetched) : AllDecodable(Fetched[i].block.transactions)

\* C7, amended: a failed tip query or block fetch, or an undecodable
\* transaction in a block the traversal classifies (every block fetched but
\* the last), aborts the run with no oldest_timestamp and no rate.
C7_AbortOnBadUnit ==
    /\ (\E i \in 1..Len(calls) : ~calls[i].ok) =>
          /\ pc = "aborted"
          /\ oldest_timestamp = None
          /\ transactions_per_second = None
    /\ \A i \in 1..Len(calls) :
          (calls[i].op = "classify" /\ ~AllDecodable(calls[i].block.transactions))
              => ~calls[i].ok
    /\ Completed =>
          /\ Len(Classified) = Len(Fetched) - 1
          /\ \A i \in 1..(Len(Fetched) - 1) :
                /\ Classified[i].block = Fetched[i].block
                /\ AllDecodable(Fetched[i].block.transactions)

\* C7's case: the second block classified holds an undecodable transaction;
\* the run aborts with the first block's count in hand and reports nothing.
C7_Witness ==
    /\ pc = "aborted"
    /\ panic = "decode"
    /\ Len(Classified) = 1
    /\ total_transactions_count > 0
    /\ transactions_per_second = None

\* C8: timestamp_threshold and the running total are the exact integer
\* results, or the run has panicked on the operation that left the range.
C8_NoWraparound ==
    /\ total_transactions_count \in U64
    /\ (Len(Fetched) >= 1 /\ Fetched[1].block.block_time # None) =>
          IF ExactThreshold \in I64
          THEN timestamp_threshold = ExactThreshold /\ panic # "checked_sub"
          ELSE pc = "aborted" /\ panic = "checked_sub"
    /\ LET n == Len(Classified)
       IN  IF panic = "Overflow"
           THEN /\ SumUsers(Classified, n) > U64_MAX
                /\ total_transactions_count = SumUsers(Classified, n - 1)
           ELSE IF panic = "from_timestamp"
                THEN total_transactions_count = SumUsers(Classified, n - 1)
                ELSE total_transactions_count = SumUsers(Classified, n)
    /\ Completed => total_transactions_count = SumUsers(Fetched, Len(Fetched) - 1)

\* C8's case: the second block's count does not fit the total.
C8_Witness ==
    /\ pc = "aborted"
    /\ panic = "Overflow"
    /\ Len(Classified) = 2
    /\ total_transactions_count > 0

\* C9: a completed walk ended on a parent at or before the threshold or on a
\* parent of height 0, every parent before it being newer than the threshold
\* and above genesis; a parent at or before the threshold ends the walk
\* whatever its height, so the height is never unwrapped for it.
C9_WindowCovered ==
    /\ Completed =>
          LET n == Len(Fetched)
              span == TimeOf(Fetched[1]) - Unwrap(oldest_timestamp)
          IN  /\ n >= 2
              /\ oldest_timestamp = LastFetched.block_time
              /\ \/ Unwrap(oldest_timestamp) <= ExactThreshold
                 \/ LastFetched.block_height = Some(0)
              /\ (threshold_seconds >= 0 /\ Unwrap(oldest_timestamp) <= ExactThreshold)
                    => span >= threshold_seconds /\ span >= 0
              /\ \A i \in 2..(n - 1) :
                    /\ TimeOf(Fetched[i]) > ExactThreshold
                    /\ Fetched[i].block.block_height \notin {None, Some(0)}
    /\ panic = "block_height" => TimeOf(Fetched[Len(Fetched)]) > ExactThreshold

\* C9's case: the walk ends on the threshold at a parent with no height.
C9_Witness ==
    /\ pc = "done"
    /\ threshold_seconds >= 0
    /\ LastFetched.block_height = None
    /\ Unwrap(oldest_timestamp) <= ExactThreshold

\* C10: on a chain whose heights strictly decrease, get_slot is the first
\* call of the traversal (the second of main, after get_version) and the only
\* one of its kind, no slot is asked for twice, a failed
\* call is the last call, every classification directly follows the fetch of
\* the classified block's parent, and a completed walk has classified every
\* block fetched but the last, the tip first.
C10_ExactlyOnce ==
    HeightsDecrease =>
        /\ \A i \in 1..Len(calls) : calls[i].op = "get_version" <=> i = 1
        /\ \A i \in 1..Len(calls) : calls[i].op = "get_slot" <=> i = 2
        /\ \A i, j \in 1..Len(FetchCalls) :
              i # j => FetchCalls[i].slot # FetchCalls[j].slot
        /\ \A i \in 1..Len(calls) : ~calls[i].ok => i = Len(calls) /\ pc = "aborted"
        /\ \A i \in 1..Len(calls) :
              calls[i].op = "classify" =>
                 /\ i > 1
                 /\ calls[i - 1].op = "get_block"
                 /\ calls[i - 1].ok
                 /\ calls[i - 1].slot = calls[i].block.parent_slot
        /\ Completed =>
              /\ Len(Fetched) = Len(Classified) + 1
              /\ Classified[1].block = Fetched[1].block
              /\ Fetched[1].slot = newest_block_number
              /\ \A i \in 1..Len(Classified) : Classified[i].block = Fetched[i].block

\* C10's case: a completed walk of three fetches and two classifications down
\* a strictly decreasing chain.
C10_Witness ==
    /\ pc = "done"
    /\ HeightsDecrease
    /\ Len(Fetched) = 3
    /\ Len(Classified) = 2
    /\ Len(calls) = 7

====
